---- MODULE Spec2Model ----
(***************************************************************************)
(* A model of avan06/manga-panel-processor:                                *)
(*   - sort_panels_by_column_then_row  (manga_panel_processor/layout.py)   *)
(*   - _find_best_border_line          (image_panel_border_cleaner/border) *)
(*   - remove_border                   (image_panel_border_cleaner/border) *)
(*                                                                         *)
(* Three specifications, one per entry point: SpecSort, SpecLocate and     *)
(* SpecBorder.  Each one leaves the variables of the other two untouched.  *)
(*                                                                         *)
(* Numbers.  The Python code computes x_center = x + w/2, the split point  *)
(* (c1 + c2)/2, the threshold full_width * 0.6 and the score               *)
(* continuity * (1 + progress/total_span) in floating point.  The model    *)
(* keeps them exact by scaling: x_center is stored doubled, split_x is     *)
(* stored times four, w >= full_width*0.6 is 5*w >= 3*full_width, and the  *)
(* score is stored times total_span.  For the integer coordinates of a     *)
(* page (far below 2^53) the double comparisons agree with the exact ones. *)
(***************************************************************************)
EXTENDS Integers, Sequences, FiniteSets

VARIABLES
    \* ---- sort_panels_by_column_then_row ----
    items,            \* the caller's list of (x, y, w, h) rectangles
    rtl_order,        \* the caller's flag
    pc,               \* position in the function
    non_spanning,     \* local: column-ordered panels (lines 55-57)
    spanning_sorted,  \* local: spanning panels by y_top (line 60)
    i, j,             \* local: merge cursors (line 64), 0-based as in the code
    merged,           \* local: the list being returned; holds references
    \* ---- _find_best_border_line ----
    roi_mask,         \* the skeleton mask read by the scan
    axis,             \* 1: rows are scanned, 0: columns are scanned
    scan_range,       \* the Python range: start, stop, step
    pcL,              \* position in the helper
    idx,              \* the loop variable i of the for loop (line 36)
    best_index, max_score, total_span,
    ret,              \* the helper's return value
    \* ---- remove_border ----
    panel_image,      \* the input image: absent, or its shape
    search_zone_ratio,\* <<numerator, denominator>>
    padding,
    pcB,              \* position in remove_border
    bbox,             \* boundingRect of the largest contour, padded coords
    best,             \* best_top_y, best_bottom_y, best_left_x, best_right_x
    final,            \* final_x1, final_y1, final_x2, final_y2
    result            \* what remove_border returned

sortVars == <<items, rtl_order, pc, non_spanning, spanning_sorted, i, j, merged>>
locVars  == <<roi_mask, axis, scan_range, pcL, idx, best_index, max_score,
              total_span, ret>>
remVars  == <<panel_image, search_zone_ratio, padding, pcB, bbox, best, final,
              result>>
vars     == <<sortVars, locVars, remVars>>

----------------------------------------------------------------------------
(* Bounds of the model.                                                    *)

MaxPanels == 4      \* longest list handed to the sorter

\* Panel geometries <<x, w>> on a page three units wide: a left column, a
\* right column and a full-width panel.
Geometries == { <<0, 1>>, <<2, 1>>, <<0, 3>> }
Tops == 0 .. 2      \* the y coordinates

Rects == { [x |-> g[1], y |-> t, w |-> g[2], h |-> 1] : g \in Geometries, t \in Tops }

RECURSIVE SeqsUpTo(_, _)
SeqsUpTo(S, n) ==
    IF n = 0 THEN { <<>> }
    ELSE LET shorter == SeqsUpTo(S, n - 1)
         IN  shorter \cup { Append(s, e) : s \in { t \in shorter : Len(t) = n - 1 }, e \in S }

----------------------------------------------------------------------------
(* Python helpers.                                                         *)

Max(a, b) == IF a >= b THEN a ELSE b
Min(a, b) == IF a <= b THEN a ELSE b
Abs(a)    == IF a >= 0 THEN a ELSE -a

\* sorted(seq, key=...) and list.sort(key=...): a stable sort.  The element at
\* index k goes to the rank counting the elements with a smaller key, and
\* those with an equal key that stand before it.
StableSortBy(seq, key) ==
    LET n == Len(seq)
        rank(k) == 1 + Cardinality({ m \in 1..n :
                        \/ seq[m][key] < seq[k][key]
                        \/ seq[m][key] = seq[k][key] /\ m < k })
    IN  [r \in 1..n |-> seq[CHOOSE k \in 1..n : rank(k) = r]]

----------------------------------------------------------------------------
(* sort_panels_by_column_then_row                                          *)

\* Line 28: the tuple (item, x_center, y_top, x, y, w, h).  item is the
\* reference to the caller's element, here its position in items; x_center is
\* stored doubled.
DataOf(its, k) ==
    [item |-> k, x_center |-> 2 * its[k].x + its[k].w, y_top |-> its[k].y,
     x |-> its[k].x, y |-> its[k].y, w |-> its[k].w, h |-> its[k].h]

\* Lines 20-28.
Data(its) == [k \in 1..Len(its) |-> DataOf(its, k)]

\* Lines 21, 27, 29: max_x2 starts at 0.
RECURSIVE MaxX2(_, _)
MaxX2(its, k) == IF k = 0 THEN 0 ELSE Max(MaxX2(its, k - 1), its[k].x + its[k].w)
FullWidth(its) == MaxX2(its, Len(its))

\* Line 32: d[5] >= full_width * 0.6.
IsWide(d, full_width) == 5 * d.w >= 3 * full_width

\* Line 33: "d not in spanning" compares tuples with ==, so the items are
\* compared by value.
TupleEq(its, d, e) ==
    /\ its[d.item] = its[e.item]
    /\ d.x_center = e.x_center /\ d.y_top = e.y_top
    /\ d.x = e.x /\ d.y = e.y /\ d.w = e.w /\ d.h = e.h
InList(its, d, lst) == \E k \in 1..Len(lst) : TupleEq(its, d, lst[k])

\* Line 32.
Wide(data, full_width) == SelectSeq(data, LAMBDA d : IsWide(d, full_width))
\* Line 33.
NotIn(its, data, sp) == SelectSeq(data, LAMBDA d : ~InList(its, d, sp))
\* Lines 36-38: too few non-spanning panels, all are treated as non-spanning.
Fallback(data, sp, rem) ==
    IF Len(rem) < 2
    THEN [spanning |-> <<>>, remaining |-> data]
    ELSE [spanning |-> sp, remaining |-> rem]
\* Lines 32-38.
Classify(its) ==
    LET data == Data(its)
        sp   == Wide(data, FullWidth(its))
    IN  Fallback(data, sp, NotIn(its, data, sp))

\* Line 43: gaps[k] = x_centers[k+1] - x_centers[k], k 0-based.
Gaps(x_centers) == [k \in 1..(Len(x_centers) - 1) |-> x_centers[k + 1] - x_centers[k]]

\* Line 44: max(gaps, key=...)[1] is the 0-based index of the first largest
\* gap, and 0 when there is no gap.
SplitIdx(gaps) ==
    IF Len(gaps) = 0 THEN 0
    ELSE (CHOOSE k \in 1..Len(gaps) :
            /\ \A m \in 1..Len(gaps) : gaps[m] <= gaps[k]
            /\ \A m \in 1..(k - 1) : gaps[m] < gaps[k]) - 1

\* Line 45 reads x_centers[split_idx + 1]: an IndexError when it is past the end.
SplitRaises(x_centers, split_idx) == split_idx + 1 >= Len(x_centers)

\* Line 45, times four (the x_centers are doubled, and so is their mean).
SplitX(x_centers, split_idx) == x_centers[split_idx + 1] + x_centers[split_idx + 2]

\* Lines 48-49: d[1] < split_x, d[1] >= split_x.
InLeft(d, split_x)  == 2 * d.x_center < split_x
InRight(d, split_x) == 2 * d.x_center >= split_x

\* Columns with the rtl_order flag ignored.
ColumnsLeftFirst(left_group, right_group, rtl) == <<left_group, right_group>>

\* Line 52.
Columns(left_group, right_group, rtl) ==
    IF ~rtl THEN <<left_group, right_group>> ELSE <<right_group, left_group>>

\* Lines 55-57.
NonSpanning(columns) ==
    StableSortBy(columns[1], "y_top") \o StableSortBy(columns[2], "y_top")

\* TakeSpanning with the comparison made non-strict.
TakeSpanningOnTie(s, n) == s.y_top <= n.y_top

\* Line 66: the spanning head is taken only when its y_top is strictly smaller.
TakeSpanning(s, n) == s.y_top < n.y_top

\* Leftovers without the spanning panels left over (line 72 dropped).
LeftoversOfColumns(ns, sp, ii, jj) == [k \in 1..(Len(ns) - ii) |-> ns[ii + k].item]

\* Lines 71-72.
Leftovers(ns, sp, ii, jj) ==
    [k \in 1..(Len(ns) - ii) |-> ns[ii + k].item] \o
    [k \in 1..(Len(sp) - jj) |-> sp[jj + k].item]

SortInit ==
    /\ items \in SeqsUpTo(Rects, MaxPanels)
    /\ rtl_order \in BOOLEAN
    /\ pc = "call"
    /\ non_spanning = <<>> /\ spanning_sorted = <<>>
    /\ i = 0 /\ j = 0
    /\ merged = <<>>

\* Lines 16-17: the empty list.
ReturnEmpty ==
    /\ pc = "call"
    /\ Len(items) = 0
    /\ pc' = "returned"
    /\ UNCHANGED <<items, rtl_order, non_spanning, spanning_sorted, i, j, merged>>
    /\ UNCHANGED <<locVars, remVars>>

\* Lines 48-57: the two groups, in column order, each sorted by y_top.
Ordered(sorted, split_x, rtl) ==
    NonSpanning(Columns(SelectSeq(sorted, LAMBDA d : InLeft(d, split_x)),
                        SelectSeq(sorted, LAMBDA d : InRight(d, split_x)), rtl))

\* Lines 19-64: everything up to the merge loop.
Arrange ==
    /\ pc = "call"
    /\ Len(items) > 0
    /\ \E cls \in { Classify(items) } :
       \E sorted \in { StableSortBy(cls.remaining, "x_center") } :
       \E x_centers \in { [k \in 1..Len(sorted) |-> sorted[k].x_center] } :
       \E split_idx \in { SplitIdx(Gaps(x_centers)) } :
          IF SplitRaises(x_centers, split_idx)
          THEN /\ pc' = "IndexError"
               /\ UNCHANGED <<non_spanning, spanning_sorted>>
          ELSE /\ pc' = "merge"
               /\ non_spanning' = Ordered(sorted, SplitX(x_centers, split_idx), rtl_order)
               /\ spanning_sorted' = StableSortBy(cls.spanning, "y_top")
    /\ i' = 0 /\ j' = 0
    /\ UNCHANGED <<items, rtl_order, merged>>
    /\ UNCHANGED <<locVars, remVars>>

\* Lines 65-67.
MergeSpanning ==
    /\ pc = "merge"
    /\ i < Len(non_spanning) /\ j < Len(spanning_sorted)
    /\ TakeSpanning(spanning_sorted[j + 1], non_spanning[i + 1])
    /\ merged' = Append(merged, spanning_sorted[j + 1].item)
    /\ j' = j + 1
    /\ UNCHANGED <<items, rtl_order, pc, non_spanning, spanning_sorted, i>>
    /\ UNCHANGED <<locVars, remVars>>

\* Lines 65, 68-69.
MergeNonSpanning ==
    /\ pc = "merge"
    /\ i < Len(non_spanning) /\ j < Len(spanning_sorted)
    /\ ~TakeSpanning(spanning_sorted[j + 1], non_spanning[i + 1])
    /\ merged' = Append(merged, non_spanning[i + 1].item)
    /\ i' = i + 1
    /\ UNCHANGED <<items, rtl_order, pc, non_spanning, spanning_sorted, j>>
    /\ UNCHANGED <<locVars, remVars>>

\* Lines 70-74.
Return ==
    /\ pc = "merge"
    /\ ~(i < Len(non_spanning) /\ j < Len(spanning_sorted))
    /\ merged' = merged \o Leftovers(non_spanning, spanning_sorted, i, j)
    /\ pc' = "returned"
    /\ UNCHANGED <<items, rtl_order, non_spanning, spanning_sorted, i, j>>
    /\ UNCHANGED <<locVars, remVars>>

----------------------------------------------------------------------------
(* _find_best_border_line                                                  *)

\* A mask is its shape and the set of its nonzero pixels <<row, col>>.
MaskOf(h, w, fg) == [h |-> h, w |-> w, fg |-> fg]

\* Number of lines along the scanned axis: rows for axis 1, columns for axis 0.
LineCount(mask, ax) == IF ax = 1 THEN mask.h ELSE mask.w

\* numpy indexing of an axis of length n: -n .. n-1 are valid, a negative
\* index counts from the end, anything else raises IndexError.
IndexValid(k, n) == -n <= k /\ k < n
NormIndex(k, n)  == IF k < 0 THEN k + n ELSE k

\* Lines 38-41: np.count_nonzero(roi_mask[i, :]) or np.count_nonzero(roi_mask[:, i]).
Continuity(mask, ax, k) ==
    IF ax = 1
    THEN Cardinality({ c \in 0..(mask.w - 1) : <<NormIndex(k, mask.h), c>> \in mask.fg })
    ELSE Cardinality({ r \in 0..(mask.h - 1) : <<r, NormIndex(k, mask.w)>> \in mask.fg })

\* range(start, stop, step): whether the loop variable k is still in the range.
InRange(rg, k) ==
    IF rg.step > 0 THEN rg.start <= k /\ k < rg.stop
                   ELSE rg.stop < k /\ k <= rg.start

PyRange(start, stop, step) == [start |-> start, stop |-> stop, step |-> step]

\* Line 32.
TotalSpan(rg) == Abs(rg.stop - rg.start)

\* Score with the weight falling, instead of rising, from start to stop.
ScoreInward(continuity, k, rg) == continuity * (2 * TotalSpan(rg) - Abs(k - rg.start))

\* Lines 45-49, times total_span: continuity * (1 + progress / total_span).
Score(continuity, k, rg) == continuity * (TotalSpan(rg) + Abs(k - rg.start))

\* IsBetter with a strict comparison: the first of equal scores is kept.
IsStrictlyBetter(score, max) == score > max

\* Line 52.
IsBetter(score, max) == score >= max

LocIdle ==
    /\ roi_mask = MaskOf(0, 0, {}) /\ axis = 1 /\ scan_range = PyRange(0, 0, 1)
    /\ pcL = "idle" /\ idx = 0 /\ best_index = 0 /\ max_score = 0
    /\ total_span = 0 /\ ret = 0

\* Lines 29-34.  max_score = -1 is stored times total_span.
FindEnter ==
    /\ pcL = "enter"
    /\ best_index' = scan_range.start
    /\ total_span' = TotalSpan(scan_range)
    /\ max_score' = (-1) * TotalSpan(scan_range)
    /\ IF TotalSpan(scan_range) = 0
       THEN /\ pcL' = "returned"
            /\ ret' = scan_range.start
            /\ idx' = idx
       ELSE /\ pcL' = "loop"
            /\ idx' = scan_range.start
            /\ ret' = ret
    /\ UNCHANGED <<roi_mask, axis, scan_range>>
    /\ UNCHANGED <<sortVars, remVars>>

\* Lines 36-53: one iteration of the for loop.
FindIter ==
    /\ pcL = "loop"
    /\ InRange(scan_range, idx)
    /\ IF ~IndexValid(idx, LineCount(roi_mask, axis))
       THEN /\ pcL' = "IndexError"
            /\ UNCHANGED <<idx, best_index, max_score>>
       ELSE LET score == Score(Continuity(roi_mask, axis, idx), idx, scan_range)
            IN  /\ IF IsBetter(score, max_score)
                   THEN max_score' = score /\ best_index' = idx
                   ELSE UNCHANGED <<max_score, best_index>>
                /\ idx' = idx + scan_range.step
                /\ pcL' = pcL
    /\ UNCHANGED <<roi_mask, axis, scan_range, total_span, ret>>
    /\ UNCHANGED <<sortVars, remVars>>

\* Line 55.
FindReturn ==
    /\ pcL = "loop"
    /\ ~InRange(scan_range, idx)
    /\ pcL' = "returned"
    /\ ret' = best_index
    /\ UNCHANGED <<roi_mask, axis, scan_range, idx, best_index, max_score, total_span>>
    /\ UNCHANGED <<sortVars, remVars>>

----------------------------------------------------------------------------
(* remove_border                                                           *)

MinSide    == 30    \* line 77
PadSize    == 15    \* line 82
MinCrop    == 10    \* line 158
PaddingDefault == 5 \* line 60

NoImage == [present |-> FALSE, rows |-> 0, cols |-> 0]
Image(rows, cols) == [present |-> TRUE, rows |-> rows, cols |-> cols]
None == [none |-> TRUE]

\* Line 77.
TooSmallToProcess(img) == ~img.present \/ img.rows < MinSide \/ img.cols < MinSide

\* int(n * search_zone_ratio), lines 121 and 123.
SearchEnd(n, ratio) == (n * ratio[1]) \div ratio[2]

\* Lines 121-130.
TopRange(h, ratio)    == PyRange(SearchEnd(h, ratio), -1, -1)
BottomRange(h, ratio) == PyRange(h - SearchEnd(h, ratio), h, 1)
LeftRange(w, ratio)   == PyRange(SearchEnd(w, ratio), -1, -1)
RightRange(w, ratio)  == PyRange(w - SearchEnd(w, ratio), w, 1)

\* Lines 135-141: the order of the four calls, their axis and their range.
ScanAxis(which) == IF which \in {"top", "bottom"} THEN 1 ELSE 0
ScanRangeOf(which, bb, ratio) ==
    CASE which = "top"    -> TopRange(bb.h, ratio)
      [] which = "bottom" -> BottomRange(bb.h, ratio)
      [] which = "left"   -> LeftRange(bb.w, ratio)
      [] which = "right"  -> RightRange(bb.w, ratio)
ScanAfter(which) ==
    CASE which = "top"    -> "bottom"
      [] which = "bottom" -> "left"
      [] which = "left"   -> "right"
      [] which = "right"  -> "validate"

\* final_x2 with the padding added instead of subtracted.
FinalX2Outward(bb, bst, pad) == bb.x + bst.right + pad

\* Lines 145-148.
FinalX1(bb, bst, pad) == bb.x + bst.left + pad
FinalY1(bb, bst, pad) == bb.y + bst.top + pad
FinalX2(bb, bst, pad) == bb.x + bst.right - pad
FinalY2(bb, bst, pad) == bb.y + bst.bottom - pad
FinalOf(bb, bst, pad) ==
    [x1 |-> FinalX1(bb, bst, pad), y1 |-> FinalY1(bb, bst, pad),
     x2 |-> FinalX2(bb, bst, pad), y2 |-> FinalY2(bb, bst, pad)]

\* Line 151.
Degenerate(f) == f.x1 >= f.x2 \/ f.y1 >= f.y2

\* numpy's a[lo:hi] on an axis of length n: negative bounds count from the
\* end, and the bounds are clipped to the axis.
SliceBound(k, n) == IF k < 0 THEN Max(k + n, 0) ELSE Min(k, n)
SliceLen(lo, hi, n) == Max(SliceBound(hi, n) - SliceBound(lo, n), 0)

\* Lines 83-86 and 155: the shape of padded_image[y1:y2, x1:x2].
CroppedShape(img, f) ==
    <<SliceLen(f.y1, f.y2, img.rows + 2 * PadSize),
      SliceLen(f.x1, f.x2, img.cols + 2 * PadSize)>>

\* Line 158.
CropTooSmall(shape) == shape[1] < MinCrop \/ shape[2] < MinCrop

Original == [kind |-> "original"]
Cropped(f, shape) == [kind |-> "cropped", rect |-> f, shape |-> shape]

\* Line 110.
ErosionIterations == 5

\* What cv2 hands back (lines 83-117).  The padding is white, below the
\* threshold of line 90, so every contour lies in the image's own area of the
\* padded image: PadSize <= x, x + w <= PadSize + cols, and likewise for y.
\* The model draws the sides of the bounding rectangle from a few sizes, from
\* a speck to the whole panel, flush with either edge of the image.
ContourSides(n) == { 1, 2, MinCrop, MinCrop + 1, 2 * MinCrop + 1, n }
BoundingRects(img) ==
    UNION { { [x |-> x, y |-> y, w |-> w, h |-> h] :
                x \in { PadSize, PadSize + img.cols - w },
                y \in { PadSize, PadSize + img.rows - h } } :
            w \in ContourSides(img.cols), h \in ContourSides(img.rows) }

\* The outline, one pixel wide, of the rectangle inset by k in an h x w mask.
RingPixels(h, w, k) ==
    { p \in (k..(h - 1 - k)) \X (k..(w - 1 - k)) :
        p[1] \in {k, h - 1 - k} \/ p[2] \in {k, w - 1 - k} }
\* The hollow ring of line 111: the pixels that ErosionIterations erosions
\* with a 3x3 kernel remove from a filled h x w rectangle.
HollowPixels(h, w) ==
    { p \in (0..(h - 1)) \X (0..(w - 1)) :
        \/ p[1] < ErosionIterations \/ p[1] > h - 1 - ErosionIterations
        \/ p[2] < ErosionIterations \/ p[2] > w - 1 - ErosionIterations }

\* roi_mask (line 117): an empty skeleton, the ring left as it is (the
\* fallback thinning of line 12), a skeleton along the outer edge or along
\* the ring's middle line.
Skeletons(h, w) ==
    { MaskOf(h, w, {}),
      MaskOf(h, w, HollowPixels(h, w)),
      MaskOf(h, w, RingPixels(h, w, 0)),
      MaskOf(h, w, RingPixels(h, w, ErosionIterations \div 2)) }

RemIdle ==
    /\ panel_image = NoImage /\ search_zone_ratio = <<1, 4>> /\ padding = 0
    /\ pcB = "idle" /\ bbox = None /\ best = None /\ final = None /\ result = None

SortIdle ==
    /\ items = <<>> /\ rtl_order = FALSE /\ pc = "idle"
    /\ non_spanning = <<>> /\ spanning_sorted = <<>>
    /\ i = 0 /\ j = 0 /\ merged = <<>>

\* Lines 76-78.
BorderEnter ==
    /\ pcB = "call"
    /\ IF TooSmallToProcess(panel_image)
       THEN pcB' = "returned" /\ result' = Original
       ELSE pcB' = "contours" /\ result' = result
    /\ UNCHANGED <<panel_image, search_zone_ratio, padding, bbox, best, final>>
    /\ UNCHANGED <<sortVars, locVars>>

\* Lines 80-97, when cv2.findContours finds nothing.
NoContours ==
    /\ pcB = "contours"
    /\ pcB' = "returned"
    /\ result' = Original
    /\ UNCHANGED <<panel_image, search_zone_ratio, padding, bbox, best, final>>
    /\ UNCHANGED <<sortVars, locVars>>

\* The call of _find_best_border_line for one border.
StartScan(which, bb, mask) ==
    /\ roi_mask' = mask
    /\ axis' = ScanAxis(which)
    /\ scan_range' = ScanRangeOf(which, bb, search_zone_ratio)
    /\ pcL' = "enter"
    /\ UNCHANGED <<idx, best_index, max_score, total_span, ret>>

\* Lines 80-135, when there is a contour: cv2 yields the bounding rectangle of
\* the largest contour and the skeleton of its hollow ring.
Prepare ==
    /\ pcB = "contours"
    /\ \E bb \in BoundingRects(panel_image) :
         \E mask \in Skeletons(bb.h, bb.w) :
            /\ bbox' = bb
            /\ StartScan("top", bb, mask)
    /\ pcB' = "top"
    /\ best' = [top |-> 0, bottom |-> 0, left |-> 0, right |-> 0]
    /\ UNCHANGED <<panel_image, search_zone_ratio, padding, final, result>>
    /\ UNCHANGED sortVars

\* Lines 135-141: a scan has returned; its result is stored and the next one
\* is called.
ScanDone ==
    /\ pcB \in {"top", "bottom", "left", "right"}
    /\ pcL = "returned"
    /\ best' = [best EXCEPT ![pcB] = ret]
    /\ pcB' = ScanAfter(pcB)
    /\ IF pcB = "right"
       THEN /\ pcL' = "idle"
            /\ UNCHANGED <<roi_mask, axis, scan_range, idx, best_index,
                           max_score, total_span, ret>>
       ELSE StartScan(ScanAfter(pcB), bbox, roi_mask)
    /\ UNCHANGED <<panel_image, search_zone_ratio, padding, bbox, final, result>>
    /\ UNCHANGED sortVars

\* An IndexError of the helper is not caught: remove_border raises it.
ScanRaised ==
    /\ pcB \in {"top", "bottom", "left", "right"}
    /\ pcL = "IndexError"
    /\ pcB' = "IndexError"
    /\ UNCHANGED <<panel_image, search_zone_ratio, padding, bbox, best, final, result>>
    /\ UNCHANGED <<sortVars, locVars>>

\* Lines 143-152.
Validate ==
    /\ pcB = "validate"
    /\ final' = FinalOf(bbox, best, padding)
    /\ IF Degenerate(FinalOf(bbox, best, padding))
       THEN pcB' = "returned" /\ result' = Original
       ELSE pcB' = "crop" /\ result' = result
    /\ UNCHANGED <<panel_image, search_zone_ratio, padding, bbox, best>>
    /\ UNCHANGED <<sortVars, locVars>>

\* Lines 154-161.
Crop ==
    /\ pcB = "crop"
    /\ LET shape == CroppedShape(panel_image, final)
       IN  result' = IF CropTooSmall(shape) THEN Original ELSE Cropped(final, shape)
    /\ pcB' = "returned"
    /\ UNCHANGED <<panel_image, search_zone_ratio, padding, bbox, best, final>>
    /\ UNCHANGED <<sortVars, locVars>>

----------------------------------------------------------------------------
(* The three specifications.                                               *)

MaxLines   == 4     \* lines along the scanned axis in SpecLocate
MaxLineLen == 2     \* pixels per line in SpecLocate
MaxExtra   == 0     \* image sides run from MinSide - 1 to MinSide + MaxExtra

\* A mask with n lines of m pixels along axis ax, line k holding v[k] nonzero
\* pixels.
LinesMask(ax, n, m, v) ==
    IF ax = 1
    THEN MaskOf(n, m, { p \in (0..(n - 1)) \X (0..(m - 1)) : p[2] < v[p[1]] })
    ELSE MaskOf(m, n, { p \in (0..(m - 1)) \X (0..(n - 1)) : p[1] < v[p[2]] })

\* The ranges over n lines that Python's range(a, b) and range(a, b, -1) give
\* without leaving the mask: start is an index or one past the end.
ScanRanges(n) ==
    { PyRange(a, b, 1) : a \in 0..n, b \in 0..n } \cup
    { PyRange(a, b, -1) : a \in 0..(n - 1), b \in -1..(n - 1) }
ValidRange(rg) == IF rg.step > 0 THEN rg.start <= rg.stop ELSE rg.stop <= rg.start

Ratios   == { <<1, 4>>, <<1, 2>>, <<3, 4>>, <<1, 1>> }
Paddings == { 0, PaddingDefault }
ImageSides == (MinSide - 1) .. (MinSide + MaxExtra)

InitSort == SortInit /\ LocIdle /\ RemIdle

InitLocate ==
    /\ SortIdle /\ RemIdle
    /\ axis \in {0, 1}
    /\ \E n \in 1..MaxLines, m \in 1..MaxLineLen :
         /\ \E v \in [0..(n - 1) -> 0..m] : roi_mask = LinesMask(axis, n, m, v)
         /\ scan_range \in { rg \in ScanRanges(n) : ValidRange(rg) }
    /\ pcL = "enter"
    /\ idx = 0 /\ best_index = 0 /\ max_score = 0 /\ total_span = 0 /\ ret = 0

InitBorder ==
    /\ SortIdle /\ LocIdle
    /\ panel_image \in {NoImage} \cup { Image(r, c) : r \in ImageSides, c \in ImageSides }
    /\ search_zone_ratio \in Ratios
    /\ padding \in Paddings
    /\ pcB = "call"
    /\ bbox = None /\ best = None /\ final = None /\ result = None

SortNext == ReturnEmpty \/ Arrange \/ MergeSpanning \/ MergeNonSpanning \/ Return

LocateNext == FindEnter \/ FindIter \/ FindReturn

BorderNext ==
    \/ BorderEnter \/ NoContours \/ Prepare
    \/ FindEnter \/ FindIter \/ FindReturn
    \/ ScanDone \/ ScanRaised \/ Validate \/ Crop

SpecSort   == InitSort /\ [][SortNext]_vars
SpecLocate == InitLocate /\ [][LocateNext]_vars
SpecBorder == InitBorder /\ [][BorderNext]_vars

----------------------------------------------------------------------------
(* Properties of sort_panels_by_column_then_row, checked under SpecSort.    *)
(* They are stated on the caller's view: items, rtl_order and the result.  *)

Returned == pc = "returned"
Panels   == 1..Len(items)

XCenterTwice(k) == 2 * items[k].x + items[k].w
YTop(k)         == items[k].y

\* The proxy for the page width: the largest x + w.
PageWidth ==
    CHOOSE m \in { items[k].x + items[k].w : k \in Panels } :
        \A k \in Panels : items[k].x + items[k].w <= m

\* width >= 0.6 x full_width
MeetsThreshold(k) == 10 * items[k].w >= 6 * PageWidth
NarrowPanels     == { k \in Panels : ~MeetsThreshold(k) }
\* A spanning panel: wide enough, when at least two panels are not.
SpanningPanels   == { k \in Panels : MeetsThreshold(k) /\ Cardinality(NarrowPanels) >= 2 }
ColumnPanels     == Panels \ SpanningPanels

\* a stands before b in the result.
Precedes(a, b) ==
    \E p \in DOMAIN merged, q \in DOMAIN merged : p < q /\ merged[p] = a /\ merged[q] = b

\* The result holds every reference of the caller exactly once, and nothing else.
IsPermutation ==
    /\ Len(merged) = Len(items)
    /\ \A p \in DOMAIN merged : merged[p] \in Panels
    /\ \A k \in Panels : Cardinality({ p \in DOMAIN merged : merged[p] = k }) = 1

\* The heads of the two lists in the merge loop.
InMergeLoop == pc = "merge" /\ i < Len(non_spanning) /\ j < Len(spanning_sorted)
HeadsTie    == InMergeLoop /\ spanning_sorted[j + 1].y_top = non_spanning[i + 1].y_top

\* C1, as claimed: the sorter never fails on well-formed rectangles; the empty
\* list gives the empty sequence and a list of one panel gives that panel.
C1_NeverFails ==
    /\ pc # "IndexError"
    /\ (Returned /\ Len(items) = 0 => merged = <<>>)
    /\ (Returned /\ Len(items) = 1 => merged = <<1>>)

\* C2, as claimed: when the heads of the spanning and the non-spanning list
\* have equal y_top, the merge step takes the spanning panel.
C2_SpanningFirstOnTie ==
    [][HeadsTie => merged' = Append(merged, spanning_sorted[j + 1].item)]_vars

\* C2, amended: when the heads of the spanning and the non-spanning list have
\* equal y_top, the merge step takes the non-spanning panel and leaves the
\* spanning head where it is.
C2_ColumnFirstOnTie ==
    [][HeadsTie => /\ merged' = Append(merged, non_spanning[i + 1].item)
                   /\ i' = i + 1 /\ j' = j]_vars

\* A merge step has just taken a column panel whose y_top equals that of the
\* spanning head, which is still waiting.
C2_Witness ==
    /\ pc = "merge" /\ i > 0 /\ j < Len(spanning_sorted)
    /\ Len(merged) > 0 /\ merged[Len(merged)] = non_spanning[i].item
    /\ spanning_sorted[j + 1].y_top = non_spanning[i].y_top

\* C6, as claimed: with at least two panels, every spanning panel stands after
\* every non-spanning panel with a strictly smaller y_top and before every
\* non-spanning panel with a strictly greater y_top.
C6_SpanningAtVerticalPosition ==
    Returned /\ Len(items) >= 2 =>
        \A s \in SpanningPanels, n \in ColumnPanels :
            /\ YTop(n) < YTop(s) => Precedes(n, s)
            /\ YTop(n) > YTop(s) => Precedes(s, n)

\* The pairs of consecutive x_center values in ascending order (doubled).
ConsecutiveCenters ==
    { pr \in { XCenterTwice(k) : k \in Panels } \X { XCenterTwice(k) : k \in Panels } :
        \/ /\ pr[1] < pr[2]
           /\ ~\E k \in Panels : pr[1] < XCenterTwice(k) /\ XCenterTwice(k) < pr[2]
        \/ /\ pr[1] = pr[2]
           /\ Cardinality({ k \in Panels : XCenterTwice(k) = pr[1] }) >= 2 }
\* The midpoints (times four) of the largest gaps.
LargestGapSplits ==
    { pr[1] + pr[2] : pr \in { q \in ConsecutiveCenters :
        \A r \in ConsecutiveCenters : r[2] - r[1] <= q[2] - q[1] } }

LeftOf(split)  == { k \in Panels : 2 * XCenterTwice(k) < split }
RightOf(split) == { k \in Panels : 2 * XCenterTwice(k) >= split }

\* All of one column, then all of the other, each in ascending y_top.
ColumnMajor(first, second) ==
    /\ IsPermutation
    /\ \A a \in first, b \in second : Precedes(a, b)
    /\ \A a \in Panels, b \in Panels :
         /\ (a \in first <=> b \in first)
         /\ YTop(a) < YTop(b)
         => Precedes(a, b)

\* Four panels at the quadrants of a page: top-left, top-right, bottom-left,
\* bottom-right, in this order.
Quadrants ==
    << [x |-> 0, y |-> 0, w |-> 1, h |-> 1], [x |-> 2, y |-> 0, w |-> 1, h |-> 1],
       [x |-> 0, y |-> 2, w |-> 1, h |-> 1], [x |-> 2, y |-> 2, w |-> 1, h |-> 1] >>

\* C7: with at least two panels and none spanning, the result is column-major
\* about the midpoint of a largest gap between consecutive x_center values:
\* left then right when rtl_order is false, right then left when it is true,
\* each column in ascending y_top.  The quadrants give [TL, BL, TR, BR] and
\* [TR, BR, TL, BL].
C7_ColumnMajor ==
    Returned /\ Len(items) >= 2 /\ SpanningPanels = {} =>
        /\ \E split \in LargestGapSplits :
              IF rtl_order THEN ColumnMajor(RightOf(split), LeftOf(split))
                           ELSE ColumnMajor(LeftOf(split), RightOf(split))
        /\ items = Quadrants =>
              merged = IF rtl_order THEN <<2, 4, 1, 3>> ELSE <<1, 3, 2, 4>>

\* The quadrants have been sorted right to left.
C7_Witness == Returned /\ items = Quadrants /\ rtl_order /\ merged = <<2, 4, 1, 3>>

\* C8: no step changes the caller's list, and a returned result is a
\* permutation of the caller's references.
C8_Permutation ==
    [][items' = items /\ (pc' = "returned" => IsPermutation')]_vars

\* A list with a spanning panel and a repeated rectangle has been sorted into
\* another order.
C8_Witness ==
    /\ Returned /\ Len(items) = MaxPanels /\ SpanningPanels # {}
    /\ items[1] = items[2]
    /\ merged # [k \in 1..Len(items) |-> k]
    /\ IsPermutation

----------------------------------------------------------------------------
(* Properties of _find_best_border_line, checked under SpecLocate.          *)

\* The indices the for loop visits.
Scanned ==
    IF scan_range.step > 0 THEN scan_range.start .. (scan_range.stop - 1)
                           ELSE (scan_range.stop + 1) .. scan_range.start
LastScanned == scan_range.stop - scan_range.step

Located == pcL = "returned" /\ Abs(scan_range.stop - scan_range.start) > 0

\* Every scanned line has the same continuity: all background (0 everywhere)
\* or equally filled lines.
UniformLines ==
    \A a \in Scanned, b \in Scanned :
        Continuity(roi_mask, axis, a) = Continuity(roi_mask, axis, b)

\* C4, as claimed: on a mask whose scanned lines all have the same continuity
\* the helper returns scan_range.start, for every range of span > 0.
C4_UniformReturnsStart == Located /\ UniformLines => ret = scan_range.start

\* C4, amended: on a mask whose scanned lines all have the same continuity
\* (zero or positive) the helper returns the last scanned index, the one next
\* to stop, for every range of span > 0.
C4_UniformReturnsLast == Located /\ UniformLines => ret = LastScanned

\* Equally filled lines, not empty, were scanned over a span of two or more.
C4_Witness ==
    /\ Located /\ UniformLines
    /\ Cardinality(Scanned) >= 2
    /\ Continuity(roi_mask, axis, scan_range.start) > 0
    /\ ret = LastScanned /\ ret # scan_range.start

\* C5: the returned index is the farthest from start among the scanned
\* indices whose continuity equals that of the returned index.
C5_FarthestAmongEqual ==
    Located =>
        /\ ret \in Scanned
        /\ \A k \in Scanned :
              Continuity(roi_mask, axis, k) = Continuity(roi_mask, axis, ret)
              => Abs(k - scan_range.start) <= Abs(ret - scan_range.start)

\* The helper returned an index that is not the last one scanned, and a nearer
\* index has the same positive continuity.
C5_Witness ==
    /\ Located /\ ret # LastScanned
    /\ Continuity(roi_mask, axis, ret) > 0
    /\ \E k \in Scanned :
          /\ k # ret
          /\ Continuity(roi_mask, axis, k) = Continuity(roi_mask, axis, ret)

----------------------------------------------------------------------------
(* Properties of remove_border, checked under SpecBorder.                  *)

Scanning == pcB \in {"top", "bottom", "left", "right"}

\* C3, as claimed: every index read by the four scans is a row in 0..h-1 or a
\* column in 0..w-1 of the ROI mask, and the search raises no error.
C3_ScansInsideMask ==
    /\ pcB # "IndexError" /\ pcL # "IndexError"
    /\ Scanning /\ pcL = "loop" /\ idx \in Scanned
       => idx \in 0 .. ((IF axis = 1 THEN bbox.h ELSE bbox.w) - 1)

\* C9: at the final crop the rectangle is not empty, lies inside the
\* contour's bounding box and inside the padded image, and has no negative
\* coordinate.
C9_CropInsideBoundingBox ==
    pcB = "crop" =>
        /\ final.x1 < final.x2 /\ final.y1 < final.y2
        /\ bbox.x <= final.x1 /\ final.x2 <= bbox.x + bbox.w
        /\ bbox.y <= final.y1 /\ final.y2 <= bbox.y + bbox.h
        /\ 0 <= final.x1 /\ 0 <= final.y1
        /\ final.x2 <= panel_image.cols + 2 * PadSize
        /\ final.y2 <= panel_image.rows + 2 * PadSize

\* The crop is about to be taken, with padding, from borders found inside the
\* search zones of a skeleton.
C9_Witness ==
    /\ pcB = "crop" /\ padding > 0
    /\ best.left > 0 /\ best.top > 0
    /\ best.right < bbox.w - 1 /\ best.bottom < bbox.h - 1

\* C10, as claimed: remove_border never raises; it returns the input unchanged
\* when the image is absent or a side is below 30, when no contour is found,
\* when x1 >= x2 or y1 >= y2, and when the crop has a side below 10; in every
\* other case it returns the crop of size (y2 - y1) x (x2 - x1), at least
\* 10 x 10.
C10_OriginalOrCrop ==
    /\ pcB # "IndexError"
    /\ pcB = "returned" =>
          IF \/ ~panel_image.present
             \/ panel_image.rows < 30 \/ panel_image.cols < 30
             \/ bbox = None
             \/ final.x1 >= final.x2 \/ final.y1 >= final.y2
             \/ final.y2 - final.y1 < 10 \/ final.x2 - final.x1 < 10
          THEN result = Original
          ELSE /\ result.kind = "cropped"
               /\ result.shape = <<final.y2 - final.y1, final.x2 - final.x1>>
               /\ result.shape[1] >= 10 /\ result.shape[2] >= 10

====
